---------------------------- MODULE Spec2Model ----------------------------
(***************************************************************************)
(* Airwise Express backend (src/server.js): ingestion of sensor readings   *)
(* (POST /readings) and their retrieval (GET /readings/device/:deviceId),  *)
(* with the two process-local reliability counters, the range validator,   *)
(* the weighted-average merge and the interpolation of retrieved batches.  *)
(*                                                                         *)
(* JavaScript values are records [t, n, d]: t is "undefined", "null",      *)
(* "nan" or "num"; a number is the exact rational n/d in lowest terms      *)
(* (d > 0).  IEEE rounding is not modelled: arithmetic is exact.           *)
(*                                                                         *)
(* Each handler is one atomic action, PostReadings or GetReadings; the     *)
(* POST handler is also given await by await (BeginPost to AwaitCreate)    *)
(* for the interleavings of concurrent requests (SpecRace).                *)
(* A stored row takes the clock as its                                     *)
(* timestamp and the clock then advances by one millisecond, so timestamps *)
(* are distinct; Tick moves the clock past the five-minute window.  The     *)
(* body key client_timestamp is never sent, and the columns of Device that *)
(* no handler reads (name, locationDescription, createdAt, lastSeenAt) are *)
(* left out.  The store is the environment: a call may throw, a key the    *)
(* schema does not know makes create throw, and NaN for a Float? column is *)
(* either written as NULL or rejected.  Client and device ids are strings  *)
(* that name no property the counter objects inherit from Object.prototype.*)
(***************************************************************************)
EXTENDS Integers, Sequences, FiniteSets, TLC

(***************************************************************************)
(* Bounds of the model                                                     *)
(***************************************************************************)
\* requests (POST or GET) handled in one behaviour of Spec
MaxRequests == 3
\* requests handled in one behaviour of SpecGate
MaxGateRequests == 6
\* times the clock jumps past the reconciliation window
MaxTicks == 1
\* store calls that throw in one behaviour
MaxStoreFailures == 1
\* requests handled in one behaviour of SpecSeries
MaxSeriesRequests == 6
\* requests handled in one behaviour of SpecNotFound
MaxNotFoundRequests == 6
\* requests handled in one behaviour of SpecWindow
MaxWindowRequests == 3
\* requests begun in one behaviour of SpecRace
MaxRaceRequests == 3
\* requests that can be in flight at the same time
MaxInFlight == 2

(***************************************************************************)
(* JavaScript values and arithmetic                                        *)
(***************************************************************************)
Undef == [t |-> "undefined", n |-> 0, d |-> 1]
Null == [t |-> "null", n |-> 0, d |-> 1]
NaN == [t |-> "nan", n |-> 0, d |-> 1]

Abs(x) == IF x < 0 THEN -x ELSE x

RECURSIVE GCD(_, _)
GCD(a, b) == IF b = 0 THEN a ELSE GCD(b, a % b)

\* the number n/d (d # 0) in lowest terms
Rat(n, d) ==
  LET g == GCD(Abs(n), Abs(d))
      s == IF d < 0 THEN -1 ELSE 1
  IN [t |-> "num", n |-> (s * n) \div g, d |-> (s * d) \div g]

Num(n) == [t |-> "num", n |-> n, d |-> 1]

\* v === null || v === undefined
IsNullish(v) == v.t \in {"undefined", "null"}

\* ToNumber: null is 0, undefined is NaN
ToNumber(v) ==
  CASE v.t = "null" -> Num(0)
    [] v.t = "undefined" -> NaN
    [] OTHER -> v

\* F(v), with v evaluated once
Let(v, F(_)) == CHOOSE r \in {F(x) : x \in {v}} : TRUE

\* the values of the model
JsValues == [t : {"undefined", "null", "nan", "num", "date"}, n : Int, d : Int]

\* x + y, x * y, x / y on numbers (NaN propagates; x / 0 is not a rational)
add[x \in JsValues, y \in JsValues] ==
  IF x.t = "nan" \/ y.t = "nan" THEN NaN
  ELSE Rat(x.n * y.d + y.n * x.d, x.d * y.d)

mul[x \in JsValues, y \in JsValues] ==
  IF x.t = "nan" \/ y.t = "nan" THEN NaN ELSE Rat(x.n * y.n, x.d * y.d)

div[x \in JsValues, y \in JsValues] ==
  IF x.t = "nan" \/ y.t = "nan" \/ y.n = 0 THEN NaN
  ELSE Rat(x.n * y.d, x.d * y.n)

\* a + b, a * b, a / b: the operands are converted to numbers first
JsAdd(a, b) == add[ToNumber(a), ToNumber(b)]
JsMul(a, b) == mul[ToNumber(a), ToNumber(b)]
JsDiv(a, b) == div[ToNumber(a), ToNumber(b)]

\* a >= b and a <= b: false as soon as one side is NaN
JsGe(a, b) ==
  LET x == ToNumber(a)
      y == ToNumber(b)
  IN x.t = "num" /\ y.t = "num" /\ x.n * y.d >= y.n * x.d

JsLe(a, b) == JsGe(b, a)

\* !v for the values a JSON body can carry here
Falsy(v) == IsNullish(v) \/ v.t = "nan" \/ (v.t = "num" /\ v.n = 0)

(***************************************************************************)
(* Helpers of server.js                                                    *)
(***************************************************************************)
Fields == {"temperature", "humidity", "pm25", "pm10", "co2", "tvoc"}

\* isValid with the bounds themselves left out (> and < for >= and <=)
isValidStrict(value, min, max) ==
  IsNullish(value)
  \/ (JsGe(value, Num(min)) /\ JsLe(value, Num(max))
      /\ value # Num(min) /\ value # Num(max))

\* isValid(value, min, max) of validateSensorData
isValid(value, min, max) ==
  IsNullish(value) \/ (JsGe(value, Num(min)) /\ JsLe(value, Num(max)))

validateSensorData(data) ==
  /\ isValid(data.temperature, -50, 50)
  /\ isValid(data.humidity, 0, 100)
  /\ isValid(data.pm25, 0, 500)
  /\ isValid(data.pm10, 0, 500)
  /\ isValid(data.co2, 0, 5000)
  /\ isValid(data.tvoc, 0, 1000)

\* resolveValue of resolveConflicts (defined by server.js, called nowhere)
resolveValue(existing, incoming) ==
  IF IsNullish(existing) THEN incoming
  ELSE IF IsNullish(incoming) THEN existing
  ELSE JsDiv(JsAdd(existing, incoming), Num(2))

resolveConflicts(existingReading, newReading) ==
  [f \in Fields |-> resolveValue(existingReading[f], newReading[f])]

\* obj[k] = v on an object used as a map
Put(obj, k, v) == [x \in DOMAIN obj \cup {k} |-> IF x = k THEN v ELSE obj[x]]

\* !obj[k]: the key is missing or holds 0
NotSet(obj, k) == k \notin DOMAIN obj \/ obj[k] = 0

\* updateGCounter that sets the count to 1 at every call (= 1 for ++)
updateGCounterAssign(counter, clientId) == Put(counter, clientId, 1)

\* updateGCounter(clientId), as the new clientReadingsCounter
updateGCounter(counter, clientId) ==
  LET c0 == IF NotSet(counter, clientId) THEN Put(counter, clientId, 0)
            ELSE counter
  IN [c0 EXCEPT ![clientId] = @ + 1]

\* updatePNCounter that always takes the decrement path (n++)
updatePNCounterDecrement(counter, deviceId, increment) ==
  LET c0 == IF deviceId \notin DOMAIN counter
            THEN Put(counter, deviceId, [p |-> 0, n |-> 0])
            ELSE counter
  IN [c0 EXCEPT ![deviceId].n = @ + 1]

\* updatePNCounter that writes 1 over the count (an increment of a stale 0)
updatePNCounterLost(counter, deviceId, increment) ==
  Put(counter, deviceId, [p |-> 1, n |-> 0])

\* !deviceReadingsCounter[deviceId]: an object, once set, is never falsy
\* updatePNCounter(deviceId, increment), as the new deviceReadingsCounter
updatePNCounter(counter, deviceId, increment) ==
  LET c0 == IF deviceId \notin DOMAIN counter
            THEN Put(counter, deviceId, [p |-> 0, n |-> 0])
            ELSE counter
  IN IF increment THEN [c0 EXCEPT ![deviceId].p = @ + 1]
     ELSE [c0 EXCEPT ![deviceId].n = @ + 1]

\* clientReadingsCounter[clientId] || 1
weightOf(counter, clientId) ==
  IF NotSet(counter, clientId) THEN 1 ELSE counter[clientId]

\* the forEach of calculateWeightedAverage over readings[i..], from the
\* accumulators (weightedSum, totalWeight)
RECURSIVE WeightedFold(_, _, _, _, _)
WeightedFold(readings, counter, i, weightedSum, totalWeight) ==
  IF i > Len(readings) THEN [weightedSum |-> weightedSum,
                             totalWeight |-> totalWeight]
  ELSE LET weight == weightOf(counter, readings[i].clientId)
       IN WeightedFold(readings, counter, i + 1,
                       JsAdd(weightedSum, JsMul(readings[i].value, Num(weight))),
                       totalWeight + weight)

calculateWeightedAverage(readings, counter) ==
  Let(WeightedFold(readings, counter, 1, Num(0), 0),
      LAMBDA acc : IF acc.totalWeight > 0
                   THEN JsDiv(acc.weightedSum, Num(acc.totalWeight))
                   ELSE Null)

\* toFixed(digits) read back as a number (+x.toFixed(d)), for x >= 0:
\* x rounded to a multiple of 1/scale, scale = 10^digits
ToFixed(x, scale) == Rat((2 * x.n * scale + x.d) \div (2 * x.d), scale)

\* Math.random() lies in [0, 1); the draws the model takes from it
RandomDraws == {Num(0), Rat(1, 2)}

\* generateDummyData(), from the six values Math.random() returned
generateDummyData(r) ==
  [temperature |-> ToFixed(JsAdd(Num(20), JsMul(r[1], Num(10))), 100),
   humidity |-> ToFixed(JsAdd(Num(40), JsMul(r[2], Num(30))), 100),
   pm25 |-> ToFixed(JsAdd(Num(5), JsMul(r[3], Num(30))), 100),
   pm10 |-> ToFixed(JsAdd(Num(10), JsMul(r[4], Num(40))), 100),
   co2 |-> ToFixed(JsAdd(Num(400), JsMul(r[5], Num(600))), 1),
   tvoc |-> ToFixed(JsAdd(Num(50), JsMul(r[6], Num(250))), 1)]

(***************************************************************************)
(* The store (prisma/schema.prisma): tables devices and sensor_readings.   *)
(* Rows are kept in insertion order; id is the autoincrement key.          *)
(***************************************************************************)
\* the trailing window of the recent-readings query, in milliseconds
WindowMs == 5 * 60 * 1000

\* the row of Device whose unique deviceId is device_id, as a set (0 or 1)
DeviceRows(devs, device_id) ==
  {i \in 1..Len(devs) : devs[i].deviceId = device_id}

\* prisma.device.upsert: update = {} changes no column of an existing row
upsertDevice(devs, device_id) ==
  IF DeviceRows(devs, device_id) # {} THEN devs
  ELSE Append(devs, [id |-> Len(devs) + 1, deviceId |-> device_id])

\* the row upsert returns
deviceOf(devs, device_id) == devs[CHOOSE i \in DeviceRows(devs, device_id) : TRUE]

\* orderBy: { timestamp: 'desc' } of the rows whose indices are in idx
RECURSIVE OrderByTimestampDesc(_, _)
OrderByTimestampDesc(rows, idx) ==
  IF idx = {} THEN <<>>
  ELSE LET top == CHOOSE i \in idx :
                    \A j \in idx : \/ rows[j].timestamp < rows[i].timestamp
                                   \/ (rows[j].timestamp = rows[i].timestamp /\ j <= i)
       IN <<rows[top]>> \o OrderByTimestampDesc(rows, idx \ {top})

\* where: { device: { deviceId } }: the rows that belong to the device
RowsOfDevice(rows, devs, device_id) ==
  {i \in 1..Len(rows) :
     \E k \in DeviceRows(devs, device_id) : rows[i].deviceIdRef = devs[k].id}

\* sensorReading.findMany of POST: the device's rows of the last 5 minutes
findRecentReadings(rows, devs, device_id, time) ==
  OrderByTimestampDesc(rows,
    {i \in RowsOfDevice(rows, devs, device_id) :
       rows[i].timestamp >= time - WindowMs})

\* take: limit
Take(seq, limit) == SubSeq(seq, 1, IF Len(seq) < limit THEN Len(seq) ELSE limit)

\* sensorReading.findMany of GET: the device's newest `limit` rows
findReadings(rows, devs, device_id, limit) ==
  Take(OrderByTimestampDesc(rows, RowsOfDevice(rows, devs, device_id)), limit)

(***************************************************************************)
(* State                                                                   *)
(***************************************************************************)
VARIABLES
  clientReadingsCounter,  \* G-counter: client id -> count
  deviceReadingsCounter,  \* PN-counter: device id -> [p, n]
  devices,                \* table devices
  readings,               \* table sensor_readings
  now,                    \* the clock, in milliseconds
  nticks,                 \* jumps of the clock so far
  nreq,                   \* requests handled so far
  nfail,                  \* store calls that have thrown so far
  req,                    \* the last request
  res,                    \* the response to it
  locals,                 \* recentReadings and resolvedData of the last POST
  recorded,               \* history: calls of updateGCounter per client id
  submittedBy,            \* history: the client id each stored row came from
  inflight                \* the POST handlers suspended at an await, per slot

vars == <<clientReadingsCounter, deviceReadingsCounter, devices, readings, now,
          nticks, nreq, nfail, req, res, locals, recorded, submittedBy,
          inflight>>


(***************************************************************************)
(* Request inputs                                                          *)
(***************************************************************************)
\* a client-supplied date
DateVal == [t |-> "date", n |-> 0, d |-> 1]

\* req.body.device_id: NoDeviceId when the key is missing, "" when empty
NoDeviceId == "<missing>"
GetDeviceIds == {"d1", "d2"}

\* req.body.client_id as the property key it becomes; a missing client_id
\* is the key "undefined"
NoClientId == "undefined"
ClientIds == {NoClientId, "c1"}

\* the six quantities of a body: s is the value of temperature and co2,
\* u the value of humidity, pm10 and tvoc, scaled to each field's range
\* by Scaled; p is the value of pm25
Scaled(v, k) == IF v.t = "num" THEN Rat(v.n * k, v.d) ELSE v

SensorValues(s, u, p) ==
  [temperature |-> s, humidity |-> Scaled(u, 2), pm25 |-> p,
   pm10 |-> Scaled(u, 10), co2 |-> Scaled(s, 100), tvoc |-> Scaled(u, 20)]

\* extra is a further key of the body: "none", "column" (clientTimestamp, a
\* column of sensor_readings that is not a quantity) or "unknown" (a key
\* the schema does not know)

Body(device_id, client_id, pm2_5, extra, data) ==
  [device_id |-> device_id, client_id |-> client_id, pm2_5 |-> pm2_5,
   extra |-> extra, temperature |-> data.temperature,
   humidity |-> data.humidity, pm25 |-> data.pm25, pm10 |-> data.pm10,
   co2 |-> data.co2, tvoc |-> data.tvoc]

\* req.query.limit: missing, or the text of the query parameter as the
\* sequence of its characters
NoLimit == [kind |-> "missing", text |-> <<>>]
Text(chars) == [kind |-> "text", text |-> chars]
LimitInputs ==
  {NoLimit, Text(<<"a", "b", "c">>), Text(<<"0">>), Text(<<"-", "3">>),
   Text(<<"1">>), Text(<<"2">>), Text(<<"2", ".", "5">>),
   Text(<<"1", "5", "0", "0">>)}

(***************************************************************************)
(* POST /readings                                                          *)
(***************************************************************************)
\* Object.values(sensorData).every(val => val === null || val === undefined)
\* sensorData is the rest of the body: the six quantities and the extra key
everyNullish(body) ==
  (\A f \in Fields : IsNullish(body[f])) /\ body.extra = "none"

\* latestReading.clientId: the property of the row, undefined (the key
\* "undefined") when the row has no such column
clientIdOf(row) == IF "clientId" \in DOMAIN row THEN row.clientId ELSE NoClientId

\* the oldest reading of the result, for the newest
latestReadingOldest(recentReadings) == recentReadings[Len(recentReadings)]

\* const latestReading = recentReadings[0]
latestReadingOf(recentReadings) == recentReadings[1]

\* the six quantities of resolvedData
resolvedData(body, recentReadings, counter) ==
  IF Len(recentReadings) > 0
  THEN LET latestReading == latestReadingOf(recentReadings)
       IN [f \in Fields |->
             calculateWeightedAverage(
               <<[value |-> latestReading[f], clientId |-> clientIdOf(latestReading)],
                 [value |-> body[f], clientId |-> body.client_id]>>,
               counter)]
  ELSE [f \in Fields |-> body[f]]

\* the data of sensorReading.create: { deviceIdRef, clientTimestamp,
\* ...resolvedData, pm25: pm2_5 }; the body's client_timestamp is not sent
createData(body, device, resolved) ==
  [deviceIdRef |-> device.id,
   clientTimestamp |-> IF body.extra = "column" THEN DateVal ELSE Null,
   unknownKey |-> body.extra = "unknown",
   temperature |-> resolved.temperature, humidity |-> resolved.humidity,
   pm25 |-> body.pm2_5, pm10 |-> resolved.pm10, co2 |-> resolved.co2,
   tvoc |-> resolved.tvoc]

\* what the client sends the store for a Float? argument: undefined leaves
\* the column out (NULL); NaN has no JSON form and goes out as null when
\* the client does not refuse it (nanAs = "null")
columnValue(v) == IF v.t \in {"undefined", "nan"} THEN Null ELSE v

\* sensorReading.create refuses a key the schema does not know, and NaN
\* when the client validates numbers (nanAs = "reject")
createThrows(data, nanAs) ==
  \/ data.unknownKey
  \/ (nanAs = "reject" /\ \E f \in Fields : data[f].t = "nan")

\* the row sensorReading.create inserts: id autoincrement, timestamp now()
newRow(rows, data, time) ==
  [id |-> Len(rows) + 1, deviceIdRef |-> data.deviceIdRef, timestamp |-> time,
   clientTimestamp |-> data.clientTimestamp,
   temperature |-> columnValue(data.temperature),
   humidity |-> columnValue(data.humidity), pm25 |-> columnValue(data.pm25),
   pm10 |-> columnValue(data.pm10), co2 |-> columnValue(data.co2),
   tvoc |-> columnValue(data.tvoc)]

\* { ...row, device_id } without deviceIdRef
responseReading(row, device_id) ==
  [id |-> row.id, timestamp |-> row.timestamp,
   clientTimestamp |-> row.clientTimestamp, temperature |-> row.temperature,
   humidity |-> row.humidity, pm25 |-> row.pm25, pm10 |-> row.pm10,
   co2 |-> row.co2, tvoc |-> row.tvoc, device_id |-> device_id]

\* the check of device_id that lets the empty string through
\* (device_id === undefined for !device_id)
missingDeviceIdStrict(body) == body.device_id = NoDeviceId

\* !device_id: the key is missing or holds the empty string
missingDeviceId(body) == body.device_id \in {NoDeviceId, ""}

Response(status, kind, data) == [status |-> status, kind |-> kind, data |-> data]

NoLocals == [recentReadings |-> <<>>, merged |-> FALSE]

\* the slots of the handlers in flight, and a slot that holds none.  pc is
\* the await the handler is suspended at ("upsert", "findMany", "create"),
\* "done" after its response; the other fields are the handler's locals,
\* weights being clientReadingsCounter as calculateWeightedAverage read it
\* and row the id of the row it created
Slots == 1..MaxInFlight
NoRequest ==
  [pc |-> "idle", body |-> <<>>, device |-> <<>>, recentReadings |-> <<>>,
   weights |-> <<>>, data |-> <<>>, row |-> 0]

StoreFailures == {"none", "upsert", "findMany", "create"}
NanPolicies == {"null", "reject"}

\* the failures the budget still allows
MayFail(fail) == fail = "none" \/ nfail < MaxStoreFailures

\* the handler of POST /readings on `body`.  The environment chooses fail,
\* the store call that throws ("none" when none does), and nanAs, how the
\* client treats NaN.  A stored row takes the clock's time, and the clock
\* moves on by a millisecond.
PostReadings(body) ==
  LET rejected(kind) ==
        /\ res' = Response(400, kind, <<>>)
        /\ locals' = NoLocals
        /\ UNCHANGED <<clientReadingsCounter, deviceReadingsCounter, devices,
                       readings, now, nfail, recorded, submittedBy>>
      failed(devs1, loc) ==
        /\ res' = Response(500, "store_error", <<>>)
        /\ devices' = devs1
        /\ locals' = loc
        /\ UNCHANGED <<readings, now, submittedBy>>
  IN /\ nreq' = nreq + 1
     /\ req' = [method |-> "POST", body |-> body]
     /\ UNCHANGED <<nticks, inflight>>
     /\ IF missingDeviceId(body)
        THEN rejected("missing_device_id")
        ELSE IF everyNullish(body) /\ Falsy(body.pm2_5)
        THEN rejected("no_sensor_values")
        ELSE IF ~validateSensorData(body)
        THEN rejected("invalid_sensor_data")
        ELSE
          \E gc \in {updateGCounter(clientReadingsCounter, body.client_id)},
             pn \in {updatePNCounter(deviceReadingsCounter, body.device_id, TRUE)},
             devs \in {upsertDevice(devices, body.device_id)} :
          \E recentReadings \in
               {findRecentReadings(readings, devs, body.device_id, now)} :
          \E resolved \in {resolvedData(body, recentReadings, gc)} :
          \E data \in {createData(body, deviceOf(devs, body.device_id), resolved)} :
          LET row == newRow(readings, data, now)
              loc == [recentReadings |-> recentReadings,
                      merged |-> Len(recentReadings) > 0]
              hasNaN == \E f \in Fields : data[f].t = "nan"
          IN /\ clientReadingsCounter' = gc
             /\ deviceReadingsCounter' = pn
             /\ recorded' = [recorded EXCEPT ![body.client_id] = @ + 1]
             /\ \E fail \in StoreFailures,
                   nanAs \in IF hasNaN THEN NanPolicies ELSE {"null"} :
                  /\ MayFail(fail)
                  /\ nfail' = IF fail # "none" THEN nfail + 1 ELSE nfail
                  /\ IF fail = "upsert" THEN failed(devices, NoLocals)
                     ELSE IF fail = "findMany" THEN failed(devs, NoLocals)
                     ELSE IF fail = "create" \/ createThrows(data, nanAs)
                     THEN failed(devs, loc)
                     ELSE /\ devices' = devs
                          /\ readings' = Append(readings, row)
                          /\ submittedBy' = Append(submittedBy, body.client_id)
                          /\ now' = now + 1
                          /\ locals' = loc
                          /\ res' = Response(201, "created",
                                 <<responseReading(row, body.device_id)>>)

(***************************************************************************)
(* POST /readings, await by await.  Node runs a handler without            *)
(* interruption from one await to the next, so a handler is four steps:    *)
(* the synchronous part up to the call of upsert, and one step per store   *)
(* call, made of the call taking effect and of the code that follows it    *)
(* up to the next await.  Steps of different requests interleave freely.   *)
(***************************************************************************)
\* the data a suspended handler re-computes from the store when create is
\* called (a merge against the row that is then the newest)
pendingDataReread(request) ==
  createData(request.body, request.device,
             resolvedData(request.body,
                          findRecentReadings(readings, devices,
                                             request.body.device_id, now),
                          clientReadingsCounter))

\* resolvedData as the handler holds it across the await of create: the
\* value computed after findMany returned
pendingData(request) == request.data

\* lines 123-146: the checks, the two counters, and the call of upsert.
\* A new handler takes the first slot that holds no suspended handler.
BeginPost(slot, body) ==
  /\ inflight[slot].pc \in {"idle", "done"}
  /\ \A other \in 1..(slot - 1) : inflight[other].pc \notin {"idle", "done"}
  /\ nreq' = nreq + 1
  /\ req' = [method |-> "POST", body |-> body]
  /\ UNCHANGED <<devices, readings, now, nticks, nfail, locals, submittedBy>>
  /\ IF missingDeviceId(body) \/ (everyNullish(body) /\ Falsy(body.pm2_5))
        \/ ~validateSensorData(body)
     THEN /\ res' = Response(400, "rejected", <<>>)
          /\ inflight' = [inflight EXCEPT ![slot] = NoRequest]
          /\ UNCHANGED <<clientReadingsCounter, deviceReadingsCounter, recorded>>
     ELSE /\ clientReadingsCounter' =
               updateGCounter(clientReadingsCounter, body.client_id)
          /\ deviceReadingsCounter' =
               updatePNCounter(deviceReadingsCounter, body.device_id, TRUE)
          /\ recorded' = [recorded EXCEPT ![body.client_id] = @ + 1]
          /\ inflight' = [inflight EXCEPT ![slot] =
                            [NoRequest EXCEPT !.pc = "upsert", !.body = body]]
          /\ UNCHANGED res

\* the catch block: the response 500 ends the handler
FailPost(slot) ==
  /\ nfail < MaxStoreFailures
  /\ nfail' = nfail + 1
  /\ res' = Response(500, "store_error", <<>>)
  /\ inflight' = [inflight EXCEPT ![slot] = NoRequest]

\* lines 146-167: upsert takes effect, findMany is called
AwaitUpsert(slot) ==
  /\ inflight[slot].pc = "upsert"
  /\ UNCHANGED <<clientReadingsCounter, deviceReadingsCounter, readings, now,
                 nticks, nreq, req, locals, recorded, submittedBy>>
  /\ \/ FailPost(slot) /\ UNCHANGED devices
     \/ \E devs \in {upsertDevice(devices, inflight[slot].body.device_id)} :
          /\ devices' = devs
          /\ inflight' = [inflight EXCEPT
                ![slot].pc = "findMany",
                ![slot].device = deviceOf(devs, inflight[slot].body.device_id)]
          /\ UNCHANGED <<nfail, res>>

\* lines 159-204: findMany returns, the merge is computed, create is called
AwaitFindMany(slot) ==
  /\ inflight[slot].pc = "findMany"
  /\ UNCHANGED <<clientReadingsCounter, deviceReadingsCounter, devices, readings,
                 now, nticks, nreq, req, locals, recorded, submittedBy>>
  /\ \/ FailPost(slot)
     \/ \E request \in {inflight[slot]} :
        \E recentReadings \in {findRecentReadings(readings, devices,
                                                 request.body.device_id, now)} :
        \E resolved \in {resolvedData(request.body, recentReadings,
                                      clientReadingsCounter)} :
          /\ inflight' = [inflight EXCEPT
                ![slot].pc = "create",
                ![slot].recentReadings = recentReadings,
                ![slot].weights = clientReadingsCounter,
                ![slot].data = createData(request.body, request.device, resolved)]
          /\ UNCHANGED <<nfail, res>>

\* lines 204-227: create inserts the row, the response 201 is sent
AwaitCreate(slot) ==
  /\ inflight[slot].pc = "create"
  /\ UNCHANGED <<clientReadingsCounter, deviceReadingsCounter, devices, nticks,
                 nreq, req, locals, recorded>>
  /\ \/ FailPost(slot) /\ UNCHANGED <<readings, now, submittedBy>>
     \/ \E request \in {inflight[slot]} :
        \E data \in {pendingData(request)} :
        \E row \in {newRow(readings, data, now)} :
        \E nanAs \in IF \E f \in Fields : data[f].t = "nan"
                     THEN NanPolicies ELSE {"null"} :
          /\ UNCHANGED nfail
          /\ IF createThrows(data, nanAs)
             THEN /\ res' = Response(500, "store_error", <<>>)
                  /\ inflight' = [inflight EXCEPT ![slot] = NoRequest]
                  /\ UNCHANGED <<readings, now, submittedBy>>
             ELSE /\ readings' = Append(readings, row)
                  /\ submittedBy' = Append(submittedBy, request.body.client_id)
                  /\ now' = now + 1
                  /\ res' = Response(201, "created",
                                     <<responseReading(row, request.body.device_id)>>)
                  /\ inflight' = [inflight EXCEPT ![slot].pc = "done",
                                                  ![slot].row = row.id]

(***************************************************************************)
(* GET /readings/device/:deviceId                                          *)
(***************************************************************************)
\* the decimal digits, each at the index of its value plus one
DigitChars == <<"0", "1", "2", "3", "4", "5", "6", "7", "8", "9">>
IsDigit(c) == \E i \in 1..Len(DigitChars) : DigitChars[i] = c
DigitValue(c) == (CHOOSE i \in 1..Len(DigitChars) : DigitChars[i] = c) - 1

\* the text without its leading white space
RECURSIVE TrimStart(_)
TrimStart(chars) ==
  IF chars # <<>> /\ Head(chars) = " " THEN TrimStart(Tail(chars)) ELSE chars

\* the longest prefix of the text that is made of digits
RECURSIVE LeadingDigits(_)
LeadingDigits(chars) ==
  IF chars # <<>> /\ IsDigit(Head(chars))
  THEN <<Head(chars)>> \o LeadingDigits(Tail(chars))
  ELSE <<>>

\* the number a sequence of digits writes, from the accumulator acc
RECURSIVE DigitsValue(_, _)
DigitsValue(digits, acc) ==
  IF digits = <<>> THEN acc
  ELSE DigitsValue(Tail(digits), 10 * acc + DigitValue(Head(digits)))

\* parseInt(string, 10): white space is skipped, a sign is read, then the
\* digits up to the first character that is not one; NaN without a digit
\* (a missing parameter is the text "undefined")
parseInt(q) ==
  IF q.kind = "missing" THEN NaN
  ELSE LET trimmed == TrimStart(q.text)
           signed == trimmed # <<>> /\ Head(trimmed) \in {"-", "+"}
           digits == LeadingDigits(IF signed THEN Tail(trimmed) ELSE trimmed)
       IN IF digits = <<>> THEN NaN
          ELSE IF signed /\ Head(trimmed) = "-"
          THEN Num(-DigitsValue(digits, 0))
          ELSE Num(DigitsValue(digits, 0))

\* let limit = parseInt(req.query.limit, 10), then the default:
\* isNaN(limit) || limit <= 0 || limit > 1000 gives 10
effectiveLimit(q) ==
  LET limit == parseInt(q)
  IN IF limit.t = "nan" \/ limit.n <= 0 \/ limit.n > 1000 THEN 10 ELSE limit.n

\* (deviceReadingsCounter[deviceId]?.p || 0) - (deviceReadingsCounter[deviceId]?.n || 0)
totalReadings(counter, deviceId) ==
  IF deviceId \in DOMAIN counter
  THEN counter[deviceId].p - counter[deviceId].n
  ELSE 0

\* the gate with <= for <
insufficientDataInclusive(total) == total <= 5

\* totalReadings < 5: the data is insufficient
insufficientData(total) == total < 5

\* the test of an empty result that never holds
noDataNever(found) == FALSE

\* readings.length === 0
noData(found) == Len(found) = 0

\* the fill that copies the preceding element's value
interpolatedValuePrev(reading, prev, next, f) ==
  IF IsNullish(reading[f]) THEN prev[f] ELSE reading[f]

\* reading.f ?? (prev.f + next.f) / 2
interpolatedValue(reading, prev, next, f) ==
  IF IsNullish(reading[f]) THEN JsDiv(JsAdd(prev[f], next[f]), Num(2))
  ELSE reading[f]

\* the map that skips the first element only: the last one is filled from
\* the element before it
interpolatedReadingsButFirst(arr) ==
  [index \in 1..Len(arr) |->
     IF index = 1 THEN arr[index]
     ELSE LET reading == arr[index]
              prev == arr[index - 1]
              next == IF index = Len(arr) THEN arr[index - 1] ELSE arr[index + 1]
          IN [f \in DOMAIN reading |->
                IF f \in Fields THEN interpolatedValue(reading, prev, next, f)
                ELSE reading[f]]]

\* readings.map((reading, index, arr) => ...)
interpolatedReadings(arr) ==
  [index \in 1..Len(arr) |->
     IF index = 1 \/ index = Len(arr) THEN arr[index]
     ELSE LET reading == arr[index]
              prev == arr[index - 1]
              next == arr[index + 1]
          IN [reading EXCEPT
                !.temperature = interpolatedValue(reading, prev, next, "temperature"),
                !.humidity = interpolatedValue(reading, prev, next, "humidity"),
                !.pm25 = interpolatedValue(reading, prev, next, "pm25"),
                !.pm10 = interpolatedValue(reading, prev, next, "pm10"),
                !.co2 = interpolatedValue(reading, prev, next, "co2"),
                !.tvoc = interpolatedValue(reading, prev, next, "tvoc")]]

responseReadings(arr, deviceId) ==
  [i \in 1..Len(arr) |-> responseReading(arr[i], deviceId)]

\* the handler that writes the interpolated values back to the rows it read
GetReadingsWritingBack(deviceId, q, fail, draws) ==
  LET found == findReadings(readings, devices, deviceId, effectiveLimit(q))
      total == totalReadings(deviceReadingsCounter, deviceId)
      listed == ~fail /\ ~insufficientData(total) /\ ~noData(found)
      filled == interpolatedReadings(found)
  IN /\ nreq' = nreq + 1
     /\ req' = [method |-> "GET", deviceId |-> deviceId, limit |-> q]
     /\ nfail' = IF fail THEN nfail + 1 ELSE nfail
     /\ locals' = NoLocals
     /\ res' = IF fail THEN Response(500, "store_error", <<>>)
               ELSE IF insufficientData(total)
               THEN Response(200, "simulated", <<generateDummyData(draws)>>)
               ELSE IF noData(found) THEN Response(404, "not_found", <<>>)
               ELSE Response(200, "list", responseReadings(filled, deviceId))
     /\ readings' =
          IF listed
          THEN [i \in 1..Len(readings) |->
                  IF \E k \in 1..Len(filled) : filled[k].id = readings[i].id
                  THEN filled[CHOOSE k \in 1..Len(filled) :
                                filled[k].id = readings[i].id]
                  ELSE readings[i]]
          ELSE readings
     /\ UNCHANGED <<clientReadingsCounter, deviceReadingsCounter, devices,
                    now, nticks, recorded, submittedBy, inflight>>

\* the handler of GET /readings/device/:deviceId; fail: findMany throws;
\* draws: the six values Math.random() returns to generateDummyData
GetReadings(deviceId, q, fail, draws) ==
  LET limit == effectiveLimit(q)
      found == findReadings(readings, devices, deviceId, limit)
      total == totalReadings(deviceReadingsCounter, deviceId)
  IN /\ nreq' = nreq + 1
     /\ req' = [method |-> "GET", deviceId |-> deviceId, limit |-> q]
     /\ nfail' = IF fail THEN nfail + 1 ELSE nfail
     /\ locals' = NoLocals
     /\ res' = IF fail THEN Response(500, "store_error", <<>>)
               ELSE IF insufficientData(total)
               THEN Response(200, "simulated", <<generateDummyData(draws)>>)
               ELSE IF noData(found) THEN Response(404, "not_found", <<>>)
               ELSE Response(200, "list",
                             responseReadings(interpolatedReadings(found), deviceId))
     /\ UNCHANGED <<clientReadingsCounter, deviceReadingsCounter, devices,
                    readings, now, nticks, recorded, submittedBy, inflight>>

(***************************************************************************)
(* The environment: time passes                                            *)
(***************************************************************************)
\* the clock jumps by the length of the window: every stored row is then
\* older than the window
Tick ==
  /\ nticks < MaxTicks
  /\ nticks' = nticks + 1
  /\ now' = now + WindowMs
  /\ UNCHANGED <<clientReadingsCounter, deviceReadingsCounter, devices, readings,
                 nreq, nfail, req, res, locals, recorded, submittedBy, inflight>>

(***************************************************************************)
(* Specifications                                                          *)
(***************************************************************************)
Init ==
  /\ clientReadingsCounter = <<>>
  /\ deviceReadingsCounter = <<>>
  /\ devices = <<>>
  /\ readings = <<>>
  /\ now = 0
  /\ nticks = 0
  /\ nreq = 0
  /\ nfail = 0
  /\ req = [method |-> "none"]
  /\ res = Response(0, "none", <<>>)
  /\ locals = NoLocals
  /\ recorded = [c \in ClientIds |-> 0]
  /\ submittedBy = <<>>
  /\ inflight = [slot \in Slots |-> NoRequest]

\* Spec: few requests, many bodies
QuantityBodies ==
  {Body("d1", c, Undef, "none", SensorValues(k[1], k[2], k[2])) :
     c \in ClientIds,
     k \in {<<Num(20), Undef>>, <<Null, Num(50)>>, <<Num(50), Num(50)>>,
            <<Num(51), Num(50)>>, <<Undef, Undef>>, <<Null, Null>>}}
AliasBodies ==
  {Body("d1", "c1", a, "none", SensorValues(v, v, v)) :
     a \in {Num(0), Num(35), Num(501)}, v \in {Undef, Num(50)}}
NoIdentityBodies ==
  {Body(dev, "c1", Undef, "none", SensorValues(Num(50), Num(50), Num(50))) :
     dev \in {NoDeviceId, ""}}
ExtraBodies ==
  {Body("d1", "c1", Undef, x, SensorValues(v, v, v)) :
     x \in {"column", "unknown"}, v \in {Undef, Num(50)}}
PostBodies == QuantityBodies \cup AliasBodies \cup NoIdentityBodies \cup ExtraBodies

\* the six draws of one call of generateDummyData
DrawVectors ==
  {[i \in 1..6 |-> Num(0)],
   [i \in 1..6 |-> IF i % 2 = 0 THEN Num(0) ELSE CHOOSE r \in RandomDraws : r # Num(0)]}

Post ==
  /\ nreq < MaxRequests
  /\ \E body \in PostBodies : PostReadings(body)

Get ==
  /\ nreq < MaxRequests
  /\ \E deviceId \in GetDeviceIds, q \in {NoLimit, Text(<<"2">>)},
        fail \in BOOLEAN, draws \in DrawVectors :
       MayFail(IF fail THEN "findMany" ELSE "none")
       /\ GetReadings(deviceId, q, fail, draws)

Next == Post \/ Get \/ Tick

Spec == Init /\ [][Next]_vars

\* SpecGate: many requests, few bodies, no jump of the clock
GateBodies ==
  {Body("d1", c, Undef, "none", SensorValues(Num(50), Num(50), Num(50))) :
     c \in ClientIds}
  \cup {Body("d2", "c1", Undef, "none", SensorValues(Num(20), Num(20), Num(20)))}
  \cup NoIdentityBodies

GatePost ==
  /\ nreq < MaxGateRequests
  /\ \E body \in GateBodies : PostReadings(body)

GateGet ==
  /\ nreq < MaxGateRequests
  /\ \E deviceId \in GetDeviceIds, fail \in BOOLEAN :
       MayFail(IF fail THEN "findMany" ELSE "none")
       /\ GetReadings(deviceId, NoLimit, fail, [i \in 1..6 |-> Num(0)])

GateNext == GatePost \/ GateGet

SpecGate == Init /\ [][GateNext]_vars

\* SpecSeries: enough requests on one device to pass the gate of GET, with
\* bodies that store pm25 = 10, 30 or null
SeriesBodies ==
  {Body("d1", "c1", a, "none", SensorValues(Num(50), Num(50), Num(50))) :
     a \in {Undef, Num(10), Num(30)}}

SeriesPost ==
  /\ nreq < MaxSeriesRequests
  /\ \E body \in SeriesBodies : PostReadings(body)

SeriesGet ==
  /\ nreq < MaxSeriesRequests
  /\ \E q \in LimitInputs, fail \in BOOLEAN :
       MayFail(IF fail THEN "findMany" ELSE "none")
       /\ GetReadings("d1", q, fail, [i \in 1..6 |-> Num(0)])

SeriesNext == SeriesPost \/ SeriesGet

SpecSeries == Init /\ [][SeriesNext]_vars

\* SpecNotFound: a device whose submissions pass validation and are stored
\* or, with a key the schema does not know, refused by the store
NotFoundBodies ==
  {Body("d2", "c1", Undef, x, SensorValues(Num(50), Num(50), Num(50))) :
     x \in {"none", "unknown"}}

NotFoundPost ==
  /\ nreq < MaxNotFoundRequests
  /\ \E body \in NotFoundBodies : PostReadings(body)

NotFoundGet ==
  /\ nreq < MaxNotFoundRequests
  /\ \E deviceId \in GetDeviceIds, fail \in BOOLEAN :
       MayFail(IF fail THEN "findMany" ELSE "none")
       /\ GetReadings(deviceId, NoLimit, fail, [i \in 1..6 |-> Num(0)])

NotFoundNext == NotFoundPost \/ NotFoundGet

SpecNotFound == Init /\ [][NotFoundNext]_vars

\* SpecWindow: a few submissions of one device with different values, from
\* two clients, inside and outside the window
WindowBodies ==
  {Body("d1", "c1", Undef, "none", SensorValues(Num(50), Num(50), Num(50))),
   Body("d1", NoClientId, Undef, "none", SensorValues(Num(20), Num(20), Num(20))),
   Body("d1", "c1", Num(35), "none", SensorValues(Null, Num(50), Undef))}

WindowPost ==
  /\ nreq < MaxWindowRequests
  /\ \E body \in WindowBodies : PostReadings(body)

WindowNext == WindowPost \/ Tick

SpecWindow == Init /\ [][WindowNext]_vars

\* SpecRace: up to MaxInFlight POST handlers at a time, every interleaving
\* of their steps; two valid bodies of one device, from two clients, and a
\* body that fails validation
RaceBodies ==
  {Body("d1", "c1", Undef, "none", SensorValues(Num(50), Num(50), Num(50))),
   Body("d1", NoClientId, Undef, "none", SensorValues(Num(20), Num(20), Num(20))),
   Body("d1", "c1", Undef, "none", SensorValues(Num(51), Num(50), Num(50)))}

RaceBegin ==
  /\ nreq < MaxRaceRequests
  /\ \E slot \in Slots, body \in RaceBodies : BeginPost(slot, body)

RaceUpsert == \E slot \in Slots : AwaitUpsert(slot)
RaceFindMany == \E slot \in Slots : AwaitFindMany(slot)
RaceCreate == \E slot \in Slots : AwaitCreate(slot)

RaceNext == RaceBegin \/ RaceUpsert \/ RaceFindMany \/ RaceCreate

SpecRace == Init /\ [][RaceNext]_vars

\* SpecValidate: validateSensorData on every value set whose fields are
\* missing, null, on a bound of the range or next to it
ValidatorInputs ==
  [temperature : {Undef, Null, Num(-51), Num(-50), Num(50), Num(51)},
   humidity : {Undef, Null, Num(-1), Num(0), Num(100), Num(101)},
   pm25 : {Undef, Null, Num(-1), Num(0), Num(500), Num(501)},
   pm10 : {Undef, Null, Num(-1), Num(0), Num(500), Num(501)},
   co2 : {Undef, Null, Num(-1), Num(0), Num(5000), Num(5001)},
   tvoc : {Undef, Null, Num(-1), Num(0), Num(1000), Num(1001)}]

InitValidate ==
  /\ clientReadingsCounter = <<>>
  /\ deviceReadingsCounter = <<>>
  /\ devices = <<>>
  /\ readings = <<>>
  /\ now = 0
  /\ nticks = 0
  /\ nreq = 0
  /\ nfail = 0
  /\ req \in {[method |-> "validate", data |-> data] : data \in ValidatorInputs}
  /\ res = Response(0, "none", <<>>)
  /\ locals = NoLocals
  /\ recorded = [c \in ClientIds |-> 0]
  /\ submittedBy = <<>>
  /\ inflight = [slot \in Slots |-> NoRequest]

Validate ==
  /\ res.kind = "none"
  /\ res' = Response(0, IF validateSensorData(req.data) THEN "accept" ELSE "reject",
                     <<>>)
  /\ UNCHANGED <<clientReadingsCounter, deviceReadingsCounter, devices, readings,
                 now, nticks, nreq, nfail, req, locals, recorded, submittedBy,
                 inflight>>

SpecValidate == InitValidate /\ [][Validate]_vars

(***************************************************************************)
(* The claims                                                              *)
(***************************************************************************)
\* the declared range of each quantity (spec 4.1)
RangeLo(f) == IF f = "temperature" THEN -50 ELSE 0
RangeHi(f) ==
  CASE f = "temperature" -> 50
    [] f = "humidity" -> 100
    [] f = "pm25" -> 500
    [] f = "pm10" -> 500
    [] f = "co2" -> 5000
    [] f = "tvoc" -> 1000

InRange(f, v) ==
  v.t = "num" /\ RangeLo(f) * v.d <= v.n /\ v.n <= RangeHi(f) * v.d

Present(v) == ~IsNullish(v)

\* the last request was a POST that stored a row; the row is the newest
Created == req.method = "POST" /\ res.kind = "created"
Stored == readings[Len(readings)]

\* the incoming value of a quantity: pm2.5 may come under its alias
Incoming(body, f) ==
  IF f = "pm25" /\ IsNullish(body.pm25) THEN body.pm2_5 ELSE body[f]

\* equality of a stored value and a submitted one: a missing key and null
\* are both "absent"
SameValue(stored, sent) ==
  IF IsNullish(sent) THEN IsNullish(stored) ELSE stored = sent

\* this step handles a POST request
PostStep == nreq' = nreq + 1 /\ req'.method = "POST"

\* C1: every stored reading has each present quantity inside its range
C1_PersistedInRange ==
  \A i \in 1..Len(readings) : \A f \in Fields :
    Present(readings[i][f]) => InRange(f, readings[i][f])

\* C2: validateSensorData accepts exactly the value sets whose fields are
\* each null/absent or inside the closed range
C2_ValidatorIffInRange ==
  res.kind \in {"accept", "reject"} =>
    (res.kind = "accept" <=>
       \A f \in Fields : IsNullish(req.data[f]) \/ InRange(f, req.data[f]))

\* C2 witness: a set with values on both bounds, a null and a missing
\* field was accepted
C2_Witness ==
  /\ res.kind = "accept"
  /\ req.data.temperature = Num(-50)
  /\ req.data.humidity = Num(100)
  /\ req.data.pm25 = Null
  /\ req.data.pm10 = Undef
  /\ req.data.co2 = Num(5000)
  /\ req.data.tvoc = Num(0)

\* C3: a POST whose six quantities are all null/absent and that carries no
\* pm2_5 alias is rejected, stores nothing and changes no counter
C3_EmptyRejected ==
  [][(/\ PostStep
      /\ \A f \in Fields : IsNullish(req'.body[f])
      /\ IsNullish(req'.body.pm2_5))
     => (/\ res'.status = 400
         /\ UNCHANGED <<readings, clientReadingsCounter, deviceReadingsCounter>>)]_vars

\* a present quantity of the body is outside its range (the alias carries
\* the pm2.5 quantity)
OutOfRange(body) ==
  \/ \E f \in Fields : Present(body[f]) /\ ~InRange(f, body[f])
  \/ (Present(body.pm2_5) /\ ~InRange("pm25", body.pm2_5))

\* C4: a POST with a present quantity outside its range is rejected and
\* changes neither the store nor the counters
C4_OutOfRangeRejected ==
  [][(PostStep /\ OutOfRange(req'.body))
     => (/\ res'.status = 400
         /\ UNCHANGED <<devices, readings, clientReadingsCounter,
                        deviceReadingsCounter>>)]_vars

\* C5: a POST without device identity is rejected and changes neither the
\* counters nor the store
C5_NoIdentityRejected ==
  [][(PostStep /\ req'.body.device_id \in {NoDeviceId, ""})
     => (/\ res'.status = 400
         /\ UNCHANGED <<clientReadingsCounter, deviceReadingsCounter, devices,
                        readings>>)]_vars

\* C5 witness: such a POST was rejected when counters and store were not
\* empty
C5_Witness ==
  /\ req.method = "POST"
  /\ req.body.device_id = ""
  /\ res.kind = "missing_device_id"
  /\ Len(readings) >= 2
  /\ DOMAIN clientReadingsCounter # {}

\* C6: without a reading in the window, the stored row carries the incoming
\* value set unchanged, for all six quantities
C6_NoPriorUnchanged ==
  (Created /\ ~locals.merged) =>
    \A f \in Fields : SameValue(Stored[f], Incoming(req.body, f))

\* the quantities whose merge is what the row stores; the stored pm25 is
\* the alias whatever the merge gave (C6), and C7 and C8 are stated on the
\* other five, which is enough to refute them
MergedFields == Fields \ {"pm25"}

\* C7: after a merge, a quantity present on exactly one side is stored as
\* that side's value
C7_OneSidePassThrough ==
  (Created /\ locals.merged) =>
    LET latest == locals.recentReadings[1]
    IN \A f \in MergedFields :
         LET l == latest[f]
             i == Incoming(req.body, f)
         IN /\ (Present(l) /\ ~Present(i)) => Stored[f] = l
            /\ (~Present(l) /\ Present(i)) => Stored[f] = i

\* the weight the claims give a client: its count, 1 when never recorded
ClaimedWeight(c) == IF recorded[c] = 0 THEN 1 ELSE recorded[c]

\* C8: after a merge, a quantity present on both sides is stored as the
\* average weighted by the weight of the client of the latest reading and
\* the weight of the submitting client
C8_WeightedByClients ==
  (Created /\ locals.merged) =>
    LET latest == locals.recentReadings[1]
        wl == ClaimedWeight(submittedBy[latest.id])
        wi == ClaimedWeight(req.body.client_id)
    IN \A f \in MergedFields :
         LET l == latest[f]
             i == Incoming(req.body, f)
         IN (Present(l) /\ Present(i)) =>
              Stored[f] = Rat(l.n * i.d * wl + i.n * l.d * wi, l.d * i.d * (wl + wi))

\* C9: the weight of a client is 1 if updateGCounter never recorded it and
\* N if it recorded it N >= 1 times
C9_WeightIsCount ==
  \A c \in ClientIds : weightOf(clientReadingsCounter, c) = ClaimedWeight(c)

\* C9 witness: one client recorded three times, the other never, and the
\* weights were used in a merge
C9_Witness ==
  /\ recorded["c1"] = 3
  /\ recorded[NoClientId] = 0
  /\ Created /\ locals.merged

\* the PN-counter total of a device: p - n, 0 if never recorded
Total(deviceId) ==
  IF deviceId \in DOMAIN deviceReadingsCounter
  THEN deviceReadingsCounter[deviceId].p - deviceReadingsCounter[deviceId].n
  ELSE 0

\* C10: a GET whose store read succeeds answers with simulated data exactly
\* when the device's total is below 5
C10_SimulatedIffBelowFive ==
  (req.method = "GET" /\ res.kind # "store_error") =>
    (res.kind = "simulated" <=> Total(req.deviceId) < 5)

\* C10 witness: a GET for a device whose total is exactly 5 returned the
\* stored readings
C10_Witness ==
  /\ req.method = "GET"
  /\ Total(req.deviceId) = 5
  /\ res.kind = "list"
  /\ Len(res.data) >= 2

\* C11: a GET for a device with no stored reading and a total of at least 5
\* is answered with the not-found error (404) whenever the store answers,
\* and in no case with simulated data or with a list
C11_NotFoundExplicit ==
  (/\ req.method = "GET"
   /\ RowsOfDevice(readings, devices, req.deviceId) = {}
   /\ Total(req.deviceId) >= 5)
  => /\ res.kind \notin {"simulated", "list"}
     /\ res.kind # "store_error" => (res.kind = "not_found" /\ res.status = 404)

\* C11 witness: five validated submissions of a device were all refused by
\* the store, and the GET for it was answered with not-found
C11_Witness ==
  /\ req.method = "GET"
  /\ RowsOfDevice(readings, devices, req.deviceId) = {}
  /\ Total(req.deviceId) = 5
  /\ res.kind = "not_found"

\* the text writes an integer: an optional sign and digits only
IsIntegerText(chars) ==
  LET unsigned == IF chars # <<>> /\ Head(chars) \in {"-", "+"}
                  THEN Tail(chars) ELSE chars
  IN unsigned # <<>> /\ \A i \in 1..Len(unsigned) : IsDigit(unsigned[i])

\* the limit the claim gives a request: the requested limit when it is an
\* integer in 1..1000, and 10 otherwise
ClaimedLimit(q) ==
  IF q.kind = "text" /\ IsIntegerText(q.text) /\ Head(q.text) # "-"
  THEN LET n == DigitsValue(IF Head(q.text) = "+" THEN Tail(q.text) ELSE q.text, 0)
       IN IF n >= 1 /\ n <= 1000 THEN n ELSE 10
  ELSE 10

\* C12: a GET that returns readings returns the newest of the device up to
\* the effective limit, which is the requested limit when that is an
\* integer in 1..1000 and 10 otherwise
C12_LimitClamped ==
  (req.method = "GET" /\ res.kind = "list") =>
    LET stored == Cardinality(RowsOfDevice(readings, devices, req.deviceId))
        claimed == ClaimedLimit(req.limit)
    IN Len(res.data) = IF stored < claimed THEN stored ELSE claimed

\* the batch the last GET read from the store, and the elements it would
\* return without interpolation
Found == findReadings(readings, devices, req.deviceId, effectiveLimit(req.limit))
Listed == req.method = "GET" /\ res.kind = "list"

\* C13: the returned batch has the length and the order of the batch read,
\* and its first and last elements are returned as stored, null fields
\* included (a batch of one element is returned as stored)
C13_EndsUnchanged ==
  Listed =>
    /\ Len(res.data) = Len(Found)
    /\ \A i \in 1..Len(Found) : res.data[i].id = Found[i].id
    /\ \A i \in {1, Len(Found)} :
         res.data[i] = responseReading(Found[i], req.deviceId)

\* C13 witness: a batch of three or more whose first and last pm25 are
\* null and whose second element was filled
C13_Witness ==
  /\ Listed
  /\ Len(Found) >= 3
  /\ Found[1].pm25 = Null /\ Found[Len(Found)].pm25 = Null
  /\ res.data[2].pm25 # Found[2].pm25

\* the interior positions of the batch read
Interior == 2..(Len(Found) - 1)

\* the arithmetic mean of two numbers
Mean(a, b) == Rat(a.n * b.d + b.n * a.d, 2 * a.d * b.d)

\* C14: an interior element's field that is null with the same field
\* present on both neighbours is returned as the mean of the two, and a
\* field that is present is returned as stored
C14_InteriorFilledWithMean ==
  Listed =>
    \A i \in Interior : \A f \in Fields :
      LET prev == Found[i - 1][f]
          next == Found[i + 1][f]
      IN /\ Present(Found[i][f]) => res.data[i][f] = Found[i][f]
         /\ (~Present(Found[i][f]) /\ Present(prev) /\ Present(next))
              => res.data[i][f] = Mean(prev, next)

\* C14 witness: pm25 stored as 10, null, 30 on three consecutive elements
\* was returned as 10, 20, 30
C14_Witness ==
  /\ Listed
  /\ \E i \in Interior :
       /\ Found[i].pm25 = Null
       /\ {Found[i - 1].pm25, Found[i + 1].pm25} = {Num(10), Num(30)}
       /\ res.data[i].pm25 = Num(20)
       /\ res.data[i].temperature = Found[i].temperature

\* a null counted as the number 0
AsZero(v) == IF Present(v) THEN v ELSE Num(0)

\* C19: an interior element's null field with a null neighbour is not
\* filled with the mean that counts the null neighbour as 0
C19_NullNeighbourAbsent ==
  Listed =>
    \A i \in Interior : \A f \in Fields :
      LET prev == Found[i - 1][f]
          next == Found[i + 1][f]
      IN (/\ ~Present(Found[i][f])
          /\ ~Present(prev) \/ ~Present(next)
          /\ prev # Num(0) /\ next # Num(0))
         => res.data[i][f] # Mean(AsZero(prev), AsZero(next))

\* a valid submission: a device identity, the six quantities and nothing
\* else, one of them at least present and each present one in its range
ValidSubmission(body) ==
  /\ body.device_id \notin {NoDeviceId, ""}
  /\ body.extra = "none" /\ IsNullish(body.pm2_5)
  /\ \E f \in Fields : Present(body[f])
  /\ ~OutOfRange(body)

\* C15: a POST of a valid submission that ends with the generic store
\* failure leaves the client G-counter and the device PN-counter as they
\* were before it
C15_StoreFailureKeepsCounters ==
  [][(PostStep /\ ValidSubmission(req'.body) /\ res'.kind = "store_error")
     => (/\ res'.status = 500
         /\ UNCHANGED <<clientReadingsCounter, deviceReadingsCounter>>)]_vars

\* the handlers that have sent 201, and the row each one's merge was
\* computed against (0 when its window was empty)
Done == {slot \in Slots : inflight[slot].pc = "done"}
BaseOf(slot) ==
  IF Len(inflight[slot].recentReadings) = 0 THEN 0
  ELSE inflight[slot].recentReadings[1].id

\* the five merged quantities of `body` against the rows `recent`, as the
\* store holds them
MergeOf(slot, recent) ==
  [f \in MergedFields |->
     columnValue(resolvedData(inflight[slot].body, recent,
                              inflight[slot].weights)[f])]
StoredMerge(slot) == [f \in MergedFields |-> readings[inflight[slot].row][f]]

\* C16: the row a handler inserts is the merge of its body with the row
\* that was the newest when its findMany returned, whatever other handlers
\* inserted between that read and its own insert
C16_MergeAgainstRowRead ==
  \A slot \in Done :
    StoredMerge(slot) = MergeOf(slot, inflight[slot].recentReadings)

\* C16 witness (the lost update): two handlers read the same latest row,
\* both inserted, and the row inserted later is not the merge with the row
\* inserted earlier
C16_Witness ==
  \E a, b \in Done :
    /\ BaseOf(a) = BaseOf(b) /\ BaseOf(a) # 0
    /\ inflight[a].row < inflight[b].row
    /\ readings[inflight[a].row].deviceIdRef = readings[inflight[b].row].deviceIdRef
    /\ StoredMerge(b) # MergeOf(b, <<readings[inflight[a].row]>>)

\* the submission passes the three checks of the handler
Validated(body) ==
  /\ ~missingDeviceId(body)
  /\ ~(everyNullish(body) /\ Falsy(body.pm2_5))
  /\ validateSensorData(body)

\* the count of a client and the p of a device, 0 when never recorded
CountOf(counter, clientId) ==
  IF clientId \in DOMAIN counter THEN counter[clientId] ELSE 0
POf(counter, deviceId) ==
  IF deviceId \in DOMAIN counter THEN counter[deviceId].p ELSE 0

\* C17: in every interleaving, the step that begins a submission passing
\* validation raises the count of its client by 1 and the p of its device
\* by 1 and changes no other count, and no other step changes a counter:
\* each client's count is the number of its validated submissions
C17_AtomicIncrements ==
  [][/\ IF nreq' = nreq + 1 /\ Validated(req'.body)
        THEN /\ \A c \in ClientIds :
                  CountOf(clientReadingsCounter', c) =
                    CountOf(clientReadingsCounter, c)
                      + (IF c = req'.body.client_id THEN 1 ELSE 0)
             /\ \A d \in GetDeviceIds :
                  POf(deviceReadingsCounter', d) =
                    POf(deviceReadingsCounter, d)
                      + (IF d = req'.body.device_id THEN 1 ELSE 0)
        ELSE UNCHANGED <<clientReadingsCounter, deviceReadingsCounter>>
     /\ \A c \in ClientIds : CountOf(clientReadingsCounter', c) = recorded'[c]]_vars

\* C17 witness: two handlers of the same device are suspended between
\* their increments and their inserts, and the device's p counts them and
\* an earlier submission
C17_Witness ==
  /\ \A slot \in Slots :
       /\ inflight[slot].pc \in {"upsert", "findMany", "create"}
       /\ inflight[slot].body.device_id = "d1"
  /\ POf(deviceReadingsCounter, "d1") = 3
  /\ CountOf(clientReadingsCounter, "c1") + CountOf(clientReadingsCounter, NoClientId) = 3

\* rows to put in the place of the older readings of the window
OlderRows == {[f \in Fields |-> v] : v \in {Null, Num(50)}}

\* the five merged quantities the last POST stored are those of the merge
\* of its body with `recent`
StoredIsMergeWith(recent) ==
  \A resolved \in {resolvedData(req.body, recent, clientReadingsCounter)} :
    \A f \in MergedFields : Stored[f] = columnValue(resolved[f])

\* C18: what a merging POST stores is the merge of its body with the newest
\* reading of the window alone, the same whatever older reading the window
\* holds besides it (and pm25 is the body's alias); the POST changes no
\* reading that was stored before it
C18_OnlyNewestMerged ==
  /\ [](Created /\ locals.merged =>
          /\ StoredIsMergeWith(<<locals.recentReadings[1]>>)
          /\ \A older \in OlderRows :
               StoredIsMergeWith(<<locals.recentReadings[1], older>>)
          /\ Stored.pm25 = columnValue(req.body.pm2_5))
  /\ [][PostStep => SubSeq(readings', 1, Len(readings)) = readings]_vars

\* C18 witness: a POST merged while the window held two readings that
\* differ, and stored its row
C18_Witness ==
  /\ Created
  /\ Len(locals.recentReadings) >= 2
  /\ locals.recentReadings[1].temperature # locals.recentReadings[2].temperature
  /\ Present(locals.recentReadings[2].temperature)
  /\ Present(req.body.temperature)

\* C20: no step lowers (or removes) a client's count or a device's p, n or
\* total, and every device's n is 0 and its total p - n is not negative
C20_CountersMonotone ==
  /\ [](\A d \in DOMAIN deviceReadingsCounter :
          deviceReadingsCounter[d].n = 0 /\ Total(d) >= 0)
  /\ [][/\ \A c \in DOMAIN clientReadingsCounter :
            /\ c \in DOMAIN clientReadingsCounter'
            /\ clientReadingsCounter'[c] >= clientReadingsCounter[c]
        /\ \A d \in DOMAIN deviceReadingsCounter :
            /\ d \in DOMAIN deviceReadingsCounter'
            /\ deviceReadingsCounter'[d].p >= deviceReadingsCounter[d].p
            /\ deviceReadingsCounter'[d].n >= deviceReadingsCounter[d].n
            /\ deviceReadingsCounter'[d].p - deviceReadingsCounter'[d].n
                 >= Total(d)]_vars

\* C20 witness: after two counted submissions of a device, one of them
\* refused by the store, a GET was handled
C20_Witness ==
  /\ req.method = "GET"
  /\ POf(deviceReadingsCounter, "d1") = 2
  /\ nfail = 1
  /\ Len(readings) = 1

\* C21: after a merge, a quantity that is null or absent both on the latest
\* in-window reading and in the incoming value set is stored as null
C21_BothAbsentStaysNull ==
  (Created /\ locals.merged) =>
    LET latest == locals.recentReadings[1]
    IN \A f \in MergedFields :
         (~Present(latest[f]) /\ ~Present(Incoming(req.body, f)))
           => Stored[f] = Null

\* this step handles a GET request
GetStep == nreq' = nreq + 1 /\ req'.method = "GET"

\* C22: a GET, whatever it answers, leaves both counters, the devices and
\* the stored readings unchanged
C22_GetReadOnly ==
  [][GetStep => UNCHANGED <<clientReadingsCounter, deviceReadingsCounter,
                            devices, readings>>]_vars

\* C22 witness: a GET returned a list of five whose second pm25 was filled
\* with a number while the stored row still holds null
C22_Witness ==
  /\ Listed
  /\ Len(res.data) = 5
  /\ res.data[2].pm25 = Num(0)
  /\ \E i \in 1..Len(readings) :
       readings[i].id = res.data[2].id /\ readings[i].pm25 = Null

=============================================================================
